---- MODULE Spec2Model ----
(***************************************************************************)
(* Model of the SMS-via-email relay: src/main.py.                          *)
(*                                                                         *)
(* Text that the program takes apart (mail addresses, mail bodies) is a    *)
(* sequence of one-character strings; text it only stores or compares      *)
(* (carrier keys, classifier output, the confirmation) is a string.        *)
(* A character outside printable ASCII is written by its code point,       *)
(* "U+00A0".                                                               *)
(***************************************************************************)
EXTENDS Integers, Sequences, FiniteSets, TLC

VARIABLES
    mailbox,      \* the IMAP inbox: sequence of mails, each with its \Seen flag
    messages,     \* list returned by fetch_unread_sms
    disposition,  \* per mail: what fetch_unread_sms did with it (its debug log)
    idx,          \* position of the for-loop of handle_unread_sms (1-based)
    pc,           \* position of handle_unread_sms
    gpt_response, \* local of handle_unread_sms
    db,           \* rows of the messages table of assistant.db
    outbox,       \* transmissions handed to aiosmtplib.send
    events,       \* calls made by the run, in order
    codec_in,     \* address codec: (phone_number, carrier) to encode
    codec_addr,   \* address codec: the composed gateway address
    codec_out,    \* address codec: result of parse_email_address
    codec_pc      \* address codec: position

vars == <<mailbox, messages, disposition, idx, pc, gpt_response, db, outbox,
          events, codec_in, codec_addr, codec_out, codec_pc>>

pipeline_vars == <<mailbox, messages, disposition, idx, pc, gpt_response, db,
                   outbox, events>>

codec_vars == <<codec_in, codec_addr, codec_out, codec_pc>>

----------------------------------------------------------------------------
(* Bounds *)

MaxMail == 2

MaxPhoneLen == 2

----------------------------------------------------------------------------
(* Configuration and character classes *)

TARGET_PHONE_NUMBER == <<"1", "5">>

CARRIER_MAP ==
    << [carrier |-> "verizon", domain |-> <<"v", "t", "e", "x", "t", ".", "c", "o", "m">>],
       [carrier |-> "tmobile", domain |-> <<"t", "m", "o", "m", "a", "i", "l", ".", "n", "e", "t">>],
       [carrier |-> "sprint", domain |-> <<"m", "e", "s", "s", "a", "g", "i", "n", "g", ".", "s", "p", "r", "i", "n", "t", "p", "c", "s", ".", "c", "o", "m">>],
       [carrier |-> "at&t", domain |-> <<"t", "x", "t", ".", "a", "t", "t", ".", "n", "e", "t">>],
       [carrier |-> "boost", domain |-> <<"s", "m", "s", "m", "y", "b", "o", "o", "s", "t", "m", "o", "b", "i", "l", "e", ".", "c", "o", "m">>],
       [carrier |-> "cricket", domain |-> <<"s", "m", "s", ".", "c", "r", "i", "c", "k", "e", "t", "w", "i", "r", "e", "l", "e", "s", "s", ".", "n", "e", "t">>],
       [carrier |-> "uscellular", domain |-> <<"e", "m", "a", "i", "l", ".", "u", "s", "c", "c", ".", "n", "e", "t">>] >>

CarrierKeys == { CARRIER_MAP[i].carrier : i \in DOMAIN CARRIER_MAP }

GatewayDomains == { CARRIER_MAP[i].domain : i \in DOMAIN CARRIER_MAP }

ERROR_PAYLOAD == "{\"error\": \"Unable to process the message\"}"

confirmation == "Your update has been logged. Thank you!"

\* \d of a str pattern: the Unicode decimal digits (category Nd).
Digit ==
    {"0", "1", "2", "3", "4", "5", "6",
     "7", "8", "9", "U+0660", "U+0661", "U+0662", "U+0663",
     "U+0664", "U+0665", "U+0666", "U+0667", "U+0668", "U+0669", "U+06F0",
     "U+06F1", "U+06F2", "U+06F3", "U+06F4", "U+06F5", "U+06F6", "U+06F7",
     "U+06F8", "U+06F9", "U+07C0", "U+07C1", "U+07C2", "U+07C3", "U+07C4",
     "U+07C5", "U+07C6", "U+07C7", "U+07C8", "U+07C9", "U+0966", "U+0967",
     "U+0968", "U+0969", "U+096A", "U+096B", "U+096C", "U+096D", "U+096E",
     "U+096F", "U+09E6", "U+09E7", "U+09E8", "U+09E9", "U+09EA", "U+09EB",
     "U+09EC", "U+09ED", "U+09EE", "U+09EF", "U+0A66", "U+0A67", "U+0A68",
     "U+0A69", "U+0A6A", "U+0A6B", "U+0A6C", "U+0A6D", "U+0A6E", "U+0A6F",
     "U+0AE6", "U+0AE7", "U+0AE8", "U+0AE9", "U+0AEA", "U+0AEB", "U+0AEC",
     "U+0AED", "U+0AEE", "U+0AEF", "U+0B66", "U+0B67", "U+0B68", "U+0B69",
     "U+0B6A", "U+0B6B", "U+0B6C", "U+0B6D", "U+0B6E", "U+0B6F", "U+0BE6",
     "U+0BE7", "U+0BE8", "U+0BE9", "U+0BEA", "U+0BEB", "U+0BEC", "U+0BED",
     "U+0BEE", "U+0BEF", "U+0C66", "U+0C67", "U+0C68", "U+0C69", "U+0C6A",
     "U+0C6B", "U+0C6C", "U+0C6D", "U+0C6E", "U+0C6F", "U+0CE6", "U+0CE7",
     "U+0CE8", "U+0CE9", "U+0CEA", "U+0CEB", "U+0CEC", "U+0CED", "U+0CEE",
     "U+0CEF", "U+0D66", "U+0D67", "U+0D68", "U+0D69", "U+0D6A", "U+0D6B",
     "U+0D6C", "U+0D6D", "U+0D6E", "U+0D6F", "U+0DE6", "U+0DE7", "U+0DE8",
     "U+0DE9", "U+0DEA", "U+0DEB", "U+0DEC", "U+0DED", "U+0DEE", "U+0DEF",
     "U+0E50", "U+0E51", "U+0E52", "U+0E53", "U+0E54", "U+0E55", "U+0E56",
     "U+0E57", "U+0E58", "U+0E59", "U+0ED0", "U+0ED1", "U+0ED2", "U+0ED3",
     "U+0ED4", "U+0ED5", "U+0ED6", "U+0ED7", "U+0ED8", "U+0ED9", "U+0F20",
     "U+0F21", "U+0F22", "U+0F23", "U+0F24", "U+0F25", "U+0F26", "U+0F27",
     "U+0F28", "U+0F29", "U+1040", "U+1041", "U+1042", "U+1043", "U+1044",
     "U+1045", "U+1046", "U+1047", "U+1048", "U+1049", "U+1090", "U+1091",
     "U+1092", "U+1093", "U+1094", "U+1095", "U+1096", "U+1097", "U+1098",
     "U+1099", "U+17E0", "U+17E1", "U+17E2", "U+17E3", "U+17E4", "U+17E5",
     "U+17E6", "U+17E7", "U+17E8", "U+17E9", "U+1810", "U+1811", "U+1812",
     "U+1813", "U+1814", "U+1815", "U+1816", "U+1817", "U+1818", "U+1819",
     "U+1946", "U+1947", "U+1948", "U+1949", "U+194A", "U+194B", "U+194C",
     "U+194D", "U+194E", "U+194F", "U+19D0", "U+19D1", "U+19D2", "U+19D3",
     "U+19D4", "U+19D5", "U+19D6", "U+19D7", "U+19D8", "U+19D9", "U+1A80",
     "U+1A81", "U+1A82", "U+1A83", "U+1A84", "U+1A85", "U+1A86", "U+1A87",
     "U+1A88", "U+1A89", "U+1A90", "U+1A91", "U+1A92", "U+1A93", "U+1A94",
     "U+1A95", "U+1A96", "U+1A97", "U+1A98", "U+1A99", "U+1B50", "U+1B51",
     "U+1B52", "U+1B53", "U+1B54", "U+1B55", "U+1B56", "U+1B57", "U+1B58",
     "U+1B59", "U+1BB0", "U+1BB1", "U+1BB2", "U+1BB3", "U+1BB4", "U+1BB5",
     "U+1BB6", "U+1BB7", "U+1BB8", "U+1BB9", "U+1C40", "U+1C41", "U+1C42",
     "U+1C43", "U+1C44", "U+1C45", "U+1C46", "U+1C47", "U+1C48", "U+1C49",
     "U+1C50", "U+1C51", "U+1C52", "U+1C53", "U+1C54", "U+1C55", "U+1C56",
     "U+1C57", "U+1C58", "U+1C59", "U+A620", "U+A621", "U+A622", "U+A623",
     "U+A624", "U+A625", "U+A626", "U+A627", "U+A628", "U+A629", "U+A8D0",
     "U+A8D1", "U+A8D2", "U+A8D3", "U+A8D4", "U+A8D5", "U+A8D6", "U+A8D7",
     "U+A8D8", "U+A8D9", "U+A900", "U+A901", "U+A902", "U+A903", "U+A904",
     "U+A905", "U+A906", "U+A907", "U+A908", "U+A909", "U+A9D0", "U+A9D1",
     "U+A9D2", "U+A9D3", "U+A9D4", "U+A9D5", "U+A9D6", "U+A9D7", "U+A9D8",
     "U+A9D9", "U+A9F0", "U+A9F1", "U+A9F2", "U+A9F3", "U+A9F4", "U+A9F5",
     "U+A9F6", "U+A9F7", "U+A9F8", "U+A9F9", "U+AA50", "U+AA51", "U+AA52",
     "U+AA53", "U+AA54", "U+AA55", "U+AA56", "U+AA57", "U+AA58", "U+AA59",
     "U+ABF0", "U+ABF1", "U+ABF2", "U+ABF3", "U+ABF4", "U+ABF5", "U+ABF6",
     "U+ABF7", "U+ABF8", "U+ABF9", "U+FF10", "U+FF11", "U+FF12", "U+FF13",
     "U+FF14", "U+FF15", "U+FF16", "U+FF17", "U+FF18", "U+FF19", "U+104A0",
     "U+104A1", "U+104A2", "U+104A3", "U+104A4", "U+104A5", "U+104A6", "U+104A7",
     "U+104A8", "U+104A9", "U+10D30", "U+10D31", "U+10D32", "U+10D33", "U+10D34",
     "U+10D35", "U+10D36", "U+10D37", "U+10D38", "U+10D39", "U+11066", "U+11067",
     "U+11068", "U+11069", "U+1106A", "U+1106B", "U+1106C", "U+1106D", "U+1106E",
     "U+1106F", "U+110F0", "U+110F1", "U+110F2", "U+110F3", "U+110F4", "U+110F5",
     "U+110F6", "U+110F7", "U+110F8", "U+110F9", "U+11136", "U+11137", "U+11138",
     "U+11139", "U+1113A", "U+1113B", "U+1113C", "U+1113D", "U+1113E", "U+1113F",
     "U+111D0", "U+111D1", "U+111D2", "U+111D3", "U+111D4", "U+111D5", "U+111D6",
     "U+111D7", "U+111D8", "U+111D9", "U+112F0", "U+112F1", "U+112F2", "U+112F3",
     "U+112F4", "U+112F5", "U+112F6", "U+112F7", "U+112F8", "U+112F9", "U+11450",
     "U+11451", "U+11452", "U+11453", "U+11454", "U+11455", "U+11456", "U+11457",
     "U+11458", "U+11459", "U+114D0", "U+114D1", "U+114D2", "U+114D3", "U+114D4",
     "U+114D5", "U+114D6", "U+114D7", "U+114D8", "U+114D9", "U+11650", "U+11651",
     "U+11652", "U+11653", "U+11654", "U+11655", "U+11656", "U+11657", "U+11658",
     "U+11659", "U+116C0", "U+116C1", "U+116C2", "U+116C3", "U+116C4", "U+116C5",
     "U+116C6", "U+116C7", "U+116C8", "U+116C9", "U+11730", "U+11731", "U+11732",
     "U+11733", "U+11734", "U+11735", "U+11736", "U+11737", "U+11738", "U+11739",
     "U+118E0", "U+118E1", "U+118E2", "U+118E3", "U+118E4", "U+118E5", "U+118E6",
     "U+118E7", "U+118E8", "U+118E9", "U+11950", "U+11951", "U+11952", "U+11953",
     "U+11954", "U+11955", "U+11956", "U+11957", "U+11958", "U+11959", "U+11C50",
     "U+11C51", "U+11C52", "U+11C53", "U+11C54", "U+11C55", "U+11C56", "U+11C57",
     "U+11C58", "U+11C59", "U+11D50", "U+11D51", "U+11D52", "U+11D53", "U+11D54",
     "U+11D55", "U+11D56", "U+11D57", "U+11D58", "U+11D59", "U+11DA0", "U+11DA1",
     "U+11DA2", "U+11DA3", "U+11DA4", "U+11DA5", "U+11DA6", "U+11DA7", "U+11DA8",
     "U+11DA9", "U+16A60", "U+16A61", "U+16A62", "U+16A63", "U+16A64", "U+16A65",
     "U+16A66", "U+16A67", "U+16A68", "U+16A69", "U+16AC0", "U+16AC1", "U+16AC2",
     "U+16AC3", "U+16AC4", "U+16AC5", "U+16AC6", "U+16AC7", "U+16AC8", "U+16AC9",
     "U+16B50", "U+16B51", "U+16B52", "U+16B53", "U+16B54", "U+16B55", "U+16B56",
     "U+16B57", "U+16B58", "U+16B59", "U+1D7CE", "U+1D7CF", "U+1D7D0", "U+1D7D1",
     "U+1D7D2", "U+1D7D3", "U+1D7D4", "U+1D7D5", "U+1D7D6", "U+1D7D7", "U+1D7D8",
     "U+1D7D9", "U+1D7DA", "U+1D7DB", "U+1D7DC", "U+1D7DD", "U+1D7DE", "U+1D7DF",
     "U+1D7E0", "U+1D7E1", "U+1D7E2", "U+1D7E3", "U+1D7E4", "U+1D7E5", "U+1D7E6",
     "U+1D7E7", "U+1D7E8", "U+1D7E9", "U+1D7EA", "U+1D7EB", "U+1D7EC", "U+1D7ED",
     "U+1D7EE", "U+1D7EF", "U+1D7F0", "U+1D7F1", "U+1D7F2", "U+1D7F3", "U+1D7F4",
     "U+1D7F5", "U+1D7F6", "U+1D7F7", "U+1D7F8", "U+1D7F9", "U+1D7FA", "U+1D7FB",
     "U+1D7FC", "U+1D7FD", "U+1D7FE", "U+1D7FF", "U+1E140", "U+1E141", "U+1E142",
     "U+1E143", "U+1E144", "U+1E145", "U+1E146", "U+1E147", "U+1E148", "U+1E149",
     "U+1E2F0", "U+1E2F1", "U+1E2F2", "U+1E2F3", "U+1E2F4", "U+1E2F5", "U+1E2F6",
     "U+1E2F7", "U+1E2F8", "U+1E2F9", "U+1E950", "U+1E951", "U+1E952", "U+1E953",
     "U+1E954", "U+1E955", "U+1E956", "U+1E957", "U+1E958", "U+1E959", "U+1FBF0",
     "U+1FBF1", "U+1FBF2", "U+1FBF3", "U+1FBF4", "U+1FBF5", "U+1FBF6", "U+1FBF7",
     "U+1FBF8", "U+1FBF9"}

Letter ==
    {"a", "b", "c", "d", "e", "f", "g", "h", "i", "j", "k", "l", "m", "n", "o",
     "p", "q", "r", "s", "t", "u", "v", "w", "x", "y", "z",
     "A", "B", "C", "D", "E", "F", "G", "H", "I", "J", "K", "L", "M", "N", "O",
     "P", "Q", "R", "S", "T", "U", "V", "W", "X", "Y", "Z"}

DomainChar == Letter \cup {"."}

\* The characters str.strip() removes.
Whitespace ==
    {" ", "\t", "\n", "\r", "\f", "U+000B", "U+001C", "U+001D", "U+001E",
     "U+001F", "U+0085", "U+00A0", "U+1680", "U+2000", "U+2001", "U+2002",
     "U+2003", "U+2004", "U+2005", "U+2006", "U+2007", "U+2008", "U+2009",
     "U+200A", "U+2028", "U+2029", "U+202F", "U+205F", "U+3000"}

----------------------------------------------------------------------------
(* str.strip() *)

RECURSIVE lstrip(_)
lstrip(s) ==
    IF s # <<>> /\ Head(s) \in Whitespace THEN lstrip(Tail(s)) ELSE s

RECURSIVE rstrip(_)
rstrip(s) ==
    IF s # <<>> /\ s[Len(s)] \in Whitespace
    THEN rstrip(SubSeq(s, 1, Len(s) - 1))
    ELSE s

strip(s) == rstrip(lstrip(s))

----------------------------------------------------------------------------
(* parse_email_address *)

AllIn(s, set) == \A i \in DOMAIN s : s[i] \in set

\* Position of the first "@" of s, or 0.
FirstAt(s) ==
    IF \E i \in DOMAIN s : s[i] = "@"
    THEN CHOOSE i \in DOMAIN s : s[i] = "@" /\ \A j \in 1..(i - 1) : s[j] # "@"
    ELSE 0

\* "^\+?": the text after an optional leading "+".
AfterPlus(from_email) ==
    IF from_email # <<>> /\ Head(from_email) = "+"
    THEN Tail(from_email) ELSE from_email

\* "$": the end of the string, or the place before one newline that ends it.
BeforeFinalNewline(rest) ==
    IF rest # <<>> /\ rest[Len(rest)] = "\n"
    THEN SubSeq(rest, 1, Len(rest) - 1) ELSE rest

\* "(\d+)@([a-zA-Z.]+)" with the "@" at position p: the two groups, or no
\* match.
Groups(p, num, dom) ==
    IF /\ p > 1
       /\ AllIn(num, Digit)
       /\ dom # <<>>
       /\ AllIn(dom, DomainChar)
    THEN [match |-> TRUE, phone_number |-> num, domain |-> dom]
    ELSE [match |-> FALSE, phone_number |-> <<>>, domain |-> <<>>]

GroupsAt(s, p) ==
    Groups(p, SubSeq(s, 1, p - 1), BeforeFinalNewline(SubSeq(s, p + 1, Len(s))))

\* re.match(r"^\+?(\d+)@([a-zA-Z.]+)$", from_email)
AddressMatch(from_email) ==
    GroupsAt(AfterPlus(from_email), FirstAt(AfterPlus(from_email)))

\* The loop over CARRIER_MAP.items(): the first carrier whose gateway domain
\* equals the domain, or "" when the loop ends without a return.
CarrierFor(domain) ==
    IF \E i \in DOMAIN CARRIER_MAP : CARRIER_MAP[i].domain = domain
    THEN CARRIER_MAP[CHOOSE i \in DOMAIN CARRIER_MAP :
            /\ CARRIER_MAP[i].domain = domain
            /\ \A j \in 1..(i - 1) : CARRIER_MAP[j].domain # domain].carrier
    ELSE ""

\* The part of parse_email_address after the match: the carrier lookup.
CarrierLookup(m) ==
    IF ~m.match
    THEN [ok |-> FALSE, error |-> "Invalid email address format",
          phone_number |-> <<>>, carrier |-> ""]
    ELSE IF CarrierFor(m.domain) = ""
    THEN [ok |-> FALSE, error |-> "Unknown carrier for domain",
          phone_number |-> <<>>, carrier |-> ""]
    ELSE [ok |-> TRUE, error |-> "",
          phone_number |-> m.phone_number, carrier |-> CarrierFor(m.domain)]

\* Result: ok with (phone_number, carrier), or the ValueError raised.
parse_email_address(from_email) == CarrierLookup(AddressMatch(from_email))

\* CARRIER_MAP[carrier]
DomainOf(carrier) ==
    CARRIER_MAP[CHOOSE i \in DOMAIN CARRIER_MAP :
                    CARRIER_MAP[i].carrier = carrier].domain

\* An address composed with a country code put in front of the number.
to_email_country_code(phone_number, carrier) ==
    <<"1">> \o phone_number \o <<"@">> \o DomainOf(carrier)

\* send_sms: to_email = f"{phone_number}@{CARRIER_MAP[carrier]}"
to_email(phone_number, carrier) ==
    phone_number \o <<"@">> \o DomainOf(carrier)

----------------------------------------------------------------------------
(* Mail items: what email.message_from_bytes gives for an RFC822 fetch *)

Plain(text) == [ctype |-> "text/plain", decodable |-> TRUE, text |-> text]

Html(text) == [ctype |-> "text/html", decodable |-> TRUE, text |-> text]

Undecodable == [ctype |-> "text/plain", decodable |-> FALSE, text |-> <<>>]

\* msg.get("From") is None when the header is absent, a str when the header
\* is ASCII, and an email.header.Header object when the header holds a
\* non-ASCII byte.
\* A single-part mail with the given ASCII From header.
Single(from, part) ==
    [from_type |-> "str", from |-> from, multipart |-> FALSE,
     parts |-> <<part>>, seen |-> FALSE]

AddrTargetVerizon == <<"1", "5", "@", "v", "t", "e", "x", "t", ".", "c", "o", "m">>

AddrTargetPlusTmobile ==
    <<"+", "1", "5", "@", "t", "m", "o", "m", "a", "i", "l", ".", "n", "e", "t">>

AddrOtherVerizon == <<"1", "6", "@", "v", "t", "e", "x", "t", ".", "c", "o", "m">>

AddrUnknownDomain == <<"1", "5", "@", "x", ".", "i", "o">>

AddrUpperDomain == <<"1", "5", "@", "V", "T", "E", "X", "T", ".", "C", "O", "M">>

AddrNoDigits == <<"a", "b", "c", "@", "v", "t", "e", "x", "t", ".", "c", "o", "m">>

AddrPadded ==
    <<" ", "1", "5", "@", "v", "t", "e", "x", "t", ".", "c", "o", "m", "\n">>

AddrVtPadded ==
    <<"U+000B", "1", "5", "@", "v", "t", "e", "x", "t", ".", "c", "o", "m", "U+001F">>

AddrNonAscii == <<"1", "5", "@", "v", "t", "U+00E9", "x", "t", ".", "c", "o", "m">>

BodyHi == <<"h", "i">>

BodyPadded == <<" ", "o", "k", "\n">>

BodyBlank == <<" ", "\n">>

BodyNbsp == <<"U+00A0", "o", "k", "U+3000">>

MailItems ==
    { Single(AddrTargetVerizon, Plain(BodyHi)),
      Single(AddrTargetPlusTmobile, Plain(BodyPadded)),
      Single(AddrPadded, Plain(BodyHi)),
      Single(AddrOtherVerizon, Plain(BodyHi)),
      Single(AddrUnknownDomain, Plain(BodyHi)),
      Single(AddrUpperDomain, Plain(BodyHi)),
      Single(AddrNoDigits, Plain(BodyHi)),
      Single(AddrTargetVerizon, Plain(BodyBlank)),
      Single(AddrTargetVerizon, Plain(<<>>)),
      Single(AddrVtPadded, Plain(BodyNbsp)),
      [from_type |-> "Header", from |-> AddrNonAscii, multipart |-> FALSE,
       parts |-> <<Plain(BodyHi)>>, seen |-> FALSE],
      Single(AddrTargetVerizon, Undecodable),
      [from_type |-> "none", from |-> <<>>, multipart |-> FALSE,
       parts |-> <<Plain(BodyHi)>>, seen |-> FALSE],
      [from_type |-> "str", from |-> AddrTargetVerizon, multipart |-> TRUE,
       parts |-> <<Html(BodyHi), Undecodable, Plain(BodyPadded)>>,
       seen |-> FALSE],
      [from_type |-> "str", from |-> AddrTargetVerizon, multipart |-> TRUE,
       parts |-> <<Html(BodyHi)>>, seen |-> FALSE],
      [from_type |-> "str", from |-> AddrTargetVerizon, multipart |-> FALSE,
       parts |-> <<Plain(BodyHi)>>, seen |-> TRUE] }

Mailboxes == UNION { [1..n -> MailItems] : n \in 0..MaxMail }

----------------------------------------------------------------------------
(* fetch_unread_sms *)

\* The loop over msg.walk() of a multipart mail, from part i on: the payload
\* of the first text/plain part that decodes, or "" (the initial body).
RECURSIVE WalkBody(_, _)
WalkBody(parts, i) ==
    IF i > Len(parts) THEN <<>>
    ELSE IF parts[i].ctype = "text/plain" /\ parts[i].decodable
    THEN parts[i].text
    ELSE WalkBody(parts, i + 1)

\* "Get the email body": the body, or the decode failure of a single-part
\* mail, which skips the mail.
ExtractBody(msg) ==
    IF msg.multipart
    THEN [ok |-> TRUE, body |-> WalkBody(msg.parts, 1)]
    ELSE IF msg.parts[1].decodable
    THEN [ok |-> TRUE, body |-> msg.parts[1].text]
    ELSE [ok |-> FALSE, body |-> <<>>]

\* A sender filter that lets every parsed number through.
SenderAccepted_any(phone_number) == TRUE

\* if phone_number != TARGET_PHONE_NUMBER: continue
SenderAccepted(phone_number) == phone_number = TARGET_PHONE_NUMBER

\* "if not body"
BodyIsEmpty(body) == body = <<>>

Skip(reason) ==
    [kept |-> FALSE, reason |-> reason,
     tuple |-> [phone_number |-> <<>>, carrier |-> "", body |-> <<>>]]

\* One iteration of the loop over email_ids once the From header is a
\* non-empty str, for r the result of parse_email_address and b the body
\* extracted: the tuple appended, or the reason of the continue.
ExamineParsed(r, b) ==
    IF ~r.ok THEN Skip("invalid_format")
    ELSE IF ~SenderAccepted(r.phone_number) THEN Skip("unrelated_phone")
    ELSE IF ~b.ok THEN Skip("decode_failed")
    ELSE IF BodyIsEmpty(b.body) THEN Skip("empty_body")
    ELSE [kept |-> TRUE, reason |-> "kept",
          tuple |-> [phone_number |-> r.phone_number,
                     carrier |-> r.carrier,
                     body |-> strip(b.body)]]

\* One iteration of the loop over email_ids for a From header that is None
\* or a str.
Examine(msg) ==
    IF msg.from_type = "none" \/ msg.from = <<>> THEN Skip("missing_from")
    ELSE ExamineParsed(parse_email_address(strip(msg.from)), ExtractBody(msg))

\* mail.search(None, "UNSEEN")
Unseen(mb) == { i \in DOMAIN mb : ~mb[i].seen }

\* The mail at which the loop over email_ids is left by an exception, or 0:
\* the first unseen mail whose FETCH raises (fail_at) or whose From header
\* is a Header object, on which from_email.strip() raises AttributeError,
\* which "except ValueError" does not catch.
StopAt(mb, fail_at) ==
    LET stops == { i \in Unseen(mb) : i = fail_at \/ mb[i].from_type = "Header" }
    IN  IF stops = {} THEN 0
        ELSE CHOOSE i \in stops : \A j \in stops : i <= j

\* mail.fetch(email_id, "(RFC822)") on a mailbox selected read-write: the
\* server sets \Seen on each mail it returns, here the unseen mails up to
\* position upto.
MarkFetched(mb, upto) ==
    [i \in DOMAIN mb |-> IF i \in Unseen(mb) /\ i <= upto
                         THEN [mb[i] EXCEPT !.seen = TRUE] ELSE mb[i]]

\* messages.append(...) for a selected mail that was kept.
Appended(selected, e) == IF selected /\ e.kept THEN <<e.tuple>> ELSE <<>>

\* The tuples appended for the unseen mails i..Len(mb), in mailbox order.
RECURSIVE Collect(_, _)
Collect(mb, i) ==
    IF i > Len(mb) THEN <<>>
    ELSE Appended(i \in Unseen(mb), Examine(mb[i])) \o Collect(mb, i + 1)

\* What the loop did with each mail when it is left at mail stop (0: not
\* left before its end), the FETCH of that mail having failed or not.
Dispositions(mb, stop, fetch_failed) ==
    [i \in DOMAIN mb |->
        IF i \notin Unseen(mb) THEN "not_selected"
        ELSE IF stop = 0 \/ i < stop THEN Examine(mb[i]).reason
        ELSE IF i > stop THEN "not_fetched"
        ELSE IF fetch_failed THEN "fetch_failed"
        ELSE "from_not_str"]

\* The interrupted loop: the exception that leaves fetch_unread_sms at mail
\* stop, with the mails fetched so far marked.  When it is the FETCH of mail
\* stop that failed, the server has marked that mail or not (marked): the
\* connection may be lost after the server handled the command.
Interrupted(mb, stop, failed, marked) ==
    [outcome |-> IF failed THEN "imap_error" ELSE "attribute_error",
     messages |-> <<>>,
     mailbox |-> MarkFetched(mb, IF failed /\ ~marked THEN stop - 1 ELSE stop),
     disposition |-> Dispositions(mb, stop, failed)]

\* A fetch that hands an empty list back to the caller.
FetchResult_empty_ok(mb, fail_at, marked, stop, kept) ==
    IF Unseen(mb) = {}
    THEN [outcome |-> "returned", messages |-> <<>>, mailbox |-> mb,
          disposition |-> [i \in DOMAIN mb |-> "not_selected"]]
    ELSE IF stop # 0
    THEN Interrupted(mb, stop, stop = fail_at, marked)
    ELSE [outcome |-> "returned", messages |-> kept,
          mailbox |-> MarkFetched(mb, Len(mb)),
          disposition |-> Dispositions(mb, 0, FALSE)]

\* The body of the with-block of fetch_unread_sms, for the mail stop at
\* which the loop is left (0: none) and the list kept of the tuples appended
\* by a loop that runs to its end.
FetchResult(mb, fail_at, marked, stop, kept) ==
    IF Unseen(mb) = {}
    THEN [outcome |-> "no_unread", messages |-> <<>>, mailbox |-> mb,
          disposition |-> [i \in DOMAIN mb |-> "not_selected"]]
    ELSE IF stop # 0
    THEN Interrupted(mb, stop, stop = fail_at, marked)
    ELSE [outcome |-> IF kept = <<>> THEN "no_valid" ELSE "returned",
          messages |-> kept,
          mailbox |-> MarkFetched(mb, Len(mb)),
          disposition |-> Dispositions(mb, 0, FALSE)]

\* The end of the with-block: IMAP4.__exit__ calls logout() and swallows
\* only OSError, so an imaplib error at LOGOUT leaves fetch_unread_sms in
\* place of the return, or of the exception, of the block.
AtExit(r, logout_fails) ==
    IF logout_fails
    THEN [r EXCEPT !.outcome = "logout_error", !.messages = <<>>]
    ELSE r

\* Result: the list returned, or the exception raised (ValueError for no
\* unread or no valid mail, the imaplib error of the FETCH of mail fail_at
\* or of LOGOUT, AttributeError), with the mailbox as the call leaves it.
fetch_unread_sms(mb, fail_at, marked, logout_fails) ==
    AtExit(FetchResult(mb, fail_at, marked, StopAt(mb, fail_at), Collect(mb, 1)),
           logout_fails)

----------------------------------------------------------------------------
(* The run: handle_unread_sms *)

\* What the model answers when the completion call succeeds.
ModelOutputs == {"{\"type\": \"task\"}", "{\"type\": \"note\"}"}

NoCodec ==
    /\ codec_in = [phone_number |-> <<>>, carrier |-> ""]
    /\ codec_addr = <<>>
    /\ codec_out = [ok |-> FALSE, error |-> "", phone_number |-> <<>>,
                    carrier |-> ""]
    /\ codec_pc = "off"

Init ==
    /\ mailbox \in Mailboxes
    /\ messages = <<>>
    /\ disposition = [i \in DOMAIN mailbox |-> "pending"]
    /\ idx = 0
    /\ pc = "fetching"
    /\ gpt_response = ""
    /\ db = <<>>
    /\ outbox = <<>>
    /\ events = <<>>
    /\ NoCodec

Event(kind, msg, result) == [kind |-> kind, msg |-> msg, result |-> result]

\* Entry into the for-loop, or into the except clause, for the result r of
\* fetch_unread_sms.
FetchEnter(r) ==
    /\ mailbox' = r.mailbox
    /\ disposition' = r.disposition
    /\ messages' = r.messages
    /\ events' = Append(events, Event("fetch", 0, r.outcome))
    /\ IF r.outcome # "returned"
       THEN pc' = "aborted" /\ idx' = idx
       ELSE IF r.messages = <<>>
       THEN pc' = "done" /\ idx' = idx
       ELSE pc' = "classifying" /\ idx' = 1
    /\ UNCHANGED <<gpt_response, db, outbox, codec_vars>>

\* messages = fetch_unread_sms(); fail_at is the unread mail whose FETCH
\* raises, 0 for none.
FetchWith(fail_at, marked, logout_fails) ==
    /\ pc = "fetching"
    /\ fail_at \in {0} \cup Unseen(mailbox)
    /\ fail_at = 0 => ~marked
    /\ FetchEnter(fetch_unread_sms(mailbox, fail_at, marked, logout_fails))

\* The mailbox answers every command.
Fetch == FetchWith(0, FALSE, FALSE)

\* imaplib raises, or answers NO, at the FETCH of one unread mail.
FetchInterrupted ==
    \E k \in 1..MaxMail, marked \in BOOLEAN : FetchWith(k, marked, FALSE)

\* imaplib raises at the LOGOUT that ends the with-block.
FetchLogoutFails ==
    \E k \in 0..MaxMail, marked \in BOOLEAN : FetchWith(k, marked, TRUE)

\* imaplib raises while connecting, logging in, selecting the inbox or
\* searching it.
FetchUnreachable ==
    /\ pc = "fetching"
    /\ pc' = "aborted"
    /\ events' = Append(events, Event("fetch", 0, "connect_error"))
    /\ UNCHANGED <<mailbox, messages, disposition, idx, gpt_response, db,
                   outbox, codec_vars>>

\* A classifier that lets the failure of the completion call through.
get_chatgpt_response_raises(api) ==
    IF api.failed
    THEN [raised |-> TRUE, value |-> ""]
    ELSE [raised |-> FALSE, value |-> api.content]

\* The try/except of get_chatgpt_response around the completion call.
get_chatgpt_response(api) ==
    IF api.failed
    THEN [raised |-> FALSE, value |-> ERROR_PAYLOAD]
    ELSE [raised |-> FALSE, value |-> api.content]

\* gpt_response = await get_chatgpt_response(body), for an outcome of the
\* completion call.
Classify(api) ==
    /\ pc = "classifying"
    /\ LET r == get_chatgpt_response(api)
       IN  /\ events' = Append(events,
                   Event("classify", idx, IF api.failed THEN "error" ELSE "ok"))
           /\ IF r.raised
              THEN pc' = "aborted" /\ gpt_response' = gpt_response
              ELSE pc' = "logging" /\ gpt_response' = r.value
    /\ UNCHANGED <<mailbox, messages, disposition, idx, db, outbox, codec_vars>>

ClassifyOk ==
    \E content \in ModelOutputs :
        Classify([failed |-> FALSE, content |-> content])

ClassifyFails == Classify([failed |-> TRUE, content |-> ""])

\* log_message_to_db(phone_number, carrier, body, gpt_response, gpt_response)
LogOk ==
    /\ pc = "logging"
    /\ db' = Append(db, [id |-> Len(db) + 1,
                         phone_number |-> messages[idx].phone_number,
                         carrier |-> messages[idx].carrier,
                         raw_message |-> messages[idx].body,
                         parsed_intent |-> gpt_response,
                         response |-> gpt_response])
    /\ events' = Append(events, Event("log", idx, "ok"))
    /\ pc' = "replying"
    /\ UNCHANGED <<mailbox, messages, disposition, idx, gpt_response, outbox,
                   codec_vars>>

\* sqlite3 raises in log_message_to_db; the exception leaves the for-loop
\* and is caught by the except clause of handle_unread_sms.
LogFails ==
    /\ pc = "logging"
    /\ events' = Append(events, Event("log", idx, "error"))
    /\ pc' = "aborted"
    /\ UNCHANGED <<mailbox, messages, disposition, idx, gpt_response, db,
                   outbox, codec_vars>>

\* A reply that carries the classifier's output.
reply_body_gpt(gpt) == gpt

\* confirmation = "Your update has been logged. Thank you!"
reply_body(gpt) == confirmation

\* The end of one iteration of the for-loop.
LoopNext ==
    /\ idx' = idx + 1
    /\ pc' = IF idx < Len(messages) THEN "classifying" ELSE "done"

\* await send_sms(phone_number, carrier, confirmation), the transmission
\* succeeding or not.
Send(delivered) ==
    /\ pc = "replying"
    /\ IF messages[idx].carrier \notin CarrierKeys
       THEN /\ outbox' = outbox
            /\ events' = Append(events, Event("send", idx, "unsupported"))
       ELSE /\ outbox' = Append(outbox,
                   [msg |-> idx,
                    to |-> to_email(messages[idx].phone_number,
                                    messages[idx].carrier),
                    body |-> reply_body(gpt_response),
                    delivered |-> delivered])
            /\ events' = Append(events,
                   Event("send", idx, IF delivered THEN "ok" ELSE "error"))
    /\ LoopNext
    /\ UNCHANGED <<mailbox, messages, disposition, gpt_response, db, codec_vars>>

SendOk == Send(TRUE)

\* A send whose transmission error reaches handle_unread_sms.
SendFails_raises ==
    /\ pc = "replying"
    /\ outbox' = Append(outbox,
           [msg |-> idx,
            to |-> to_email(messages[idx].phone_number, messages[idx].carrier),
            body |-> reply_body(gpt_response),
            delivered |-> FALSE])
    /\ events' = Append(events, Event("send", idx, "error"))
    /\ pc' = "aborted"
    /\ UNCHANGED <<mailbox, messages, disposition, idx, gpt_response, db,
                   codec_vars>>

\* aiosmtplib.send raises; send_sms logs the error and returns.
SendFails == Send(FALSE)

Next ==
    \/ Fetch
    \/ FetchInterrupted
    \/ FetchLogoutFails
    \/ FetchUnreachable
    \/ ClassifyOk
    \/ ClassifyFails
    \/ LogOk
    \/ LogFails
    \/ SendOk
    \/ SendFails

Spec == Init /\ [][Next]_vars

----------------------------------------------------------------------------
(* The address codec on its own: compose as send_sms, then parse *)

\* The digits phone numbers are drawn from: ASCII, Arabic-Indic, fullwidth.
PhoneDigits == {"0", "1", "5", "9", "U+0661", "U+FF15"}

PhoneNumbers == UNION { [1..n -> PhoneDigits] : n \in 1..MaxPhoneLen }

NoPipeline ==
    /\ mailbox = <<>>
    /\ messages = <<>>
    /\ disposition = <<>>
    /\ idx = 0
    /\ pc = "off"
    /\ gpt_response = ""
    /\ db = <<>>
    /\ outbox = <<>>
    /\ events = <<>>

CodecInit ==
    /\ codec_in \in [phone_number : PhoneNumbers, carrier : CarrierKeys]
    /\ codec_addr = <<>>
    /\ codec_out = [ok |-> FALSE, error |-> "", phone_number |-> <<>>,
                    carrier |-> ""]
    /\ codec_pc = "encode"
    /\ NoPipeline

CodecEncode ==
    /\ codec_pc = "encode"
    /\ codec_addr' = to_email(codec_in.phone_number, codec_in.carrier)
    /\ codec_pc' = "decode"
    /\ UNCHANGED <<codec_in, codec_out, pipeline_vars>>

CodecDecode ==
    /\ codec_pc = "decode"
    /\ codec_out' = parse_email_address(codec_addr)
    /\ codec_pc' = "done"
    /\ UNCHANGED <<codec_in, codec_addr, pipeline_vars>>

CodecNext == CodecEncode \/ CodecDecode

SpecCodec == CodecInit /\ [][CodecNext]_vars

----------------------------------------------------------------------------
(* Properties *)

Terminated == pc \in {"done", "aborted"}

EventsOf(kind, n) ==
    { k \in DOMAIN events : events[k].kind = kind /\ events[k].msg = n }

\* The row inserted by the log call recorded at position k of events.
RowAt(k) ==
    db[Cardinality({ j \in 1..k : events[j].kind = "log"
                                  /\ events[j].result = "ok" })]

\* The text of a From header after its first "@".
AfterAt(s) == SubSeq(s, FirstAt(s) + 1, Len(s))

\* C1: when the store raises for message N of a batch, message N+1 is still
\* classified, logged and replied to in that run.
C1_StoreFailureContained ==
    \A k \in DOMAIN events :
        ( /\ Terminated
          /\ events[k].kind = "log" /\ events[k].result = "error"
          /\ events[k].msg < Len(messages) )
        => /\ EventsOf("classify", events[k].msg + 1) # {}
           /\ EventsOf("log", events[k].msg + 1) # {}
           /\ \A j \in EventsOf("log", events[k].msg + 1) :
                 events[j].result = "ok"
                 => EventsOf("send", events[k].msg + 1) # {}

\* C2: a failed completion call yields the error payload without raising;
\* the run goes on to insert the row of that message, with the payload as
\* parsed_intent, and then to the reply to its sender.
C2_ClassifierFailureDegrades ==
    \A k \in DOMAIN events :
        (events[k].kind = "classify" /\ events[k].result = "error")
        => LET n == events[k].msg
           IN  /\ k = Len(events)
                  => pc = "logging" /\ idx = n /\ gpt_response = ERROR_PAYLOAD
               /\ k < Len(events)
                  => /\ events[k + 1].kind = "log" /\ events[k + 1].msg = n
                     /\ events[k + 1].result = "ok"
                        => /\ RowAt(k + 1).parsed_intent = ERROR_PAYLOAD
                           /\ RowAt(k + 1).raw_message = messages[n].body
                           /\ RowAt(k + 1).phone_number = messages[n].phone_number
                           /\ k + 1 = Len(events)
                              => pc = "replying" /\ idx = n
                           /\ k + 1 < Len(events)
                              => /\ events[k + 2].kind = "send"
                                 /\ events[k + 2].msg = n
                                 /\ \E i \in DOMAIN outbox :
                                       /\ outbox[i].msg = n
                                       /\ outbox[i].to =
                                            to_email(messages[n].phone_number,
                                                     messages[n].carrier)

C2_Witness ==
    \E k \in DOMAIN events :
        /\ events[k].kind = "classify" /\ events[k].result = "error"
        /\ k + 2 <= Len(events)
        /\ events[k + 1].result = "ok"
        /\ RowAt(k + 1).parsed_intent = ERROR_PAYLOAD
        /\ events[k + 2].kind = "send"

\* C3: every tuple returned by the fetch, every row and every reply carries
\* the target phone number; a well-formed unread mail of a known carrier and
\* another number is never among the tuples.
C3_OnlyTargetSender ==
    /\ \A i \in DOMAIN messages : messages[i].phone_number = TARGET_PHONE_NUMBER
    /\ \A i \in DOMAIN db : db[i].phone_number = TARGET_PHONE_NUMBER
    /\ \A i \in DOMAIN outbox :
          SubSeq(outbox[i].to, 1, FirstAt(outbox[i].to) - 1) = TARGET_PHONE_NUMBER
    /\ (events # <<>> /\ events[1].result = "returned")
       => Len(messages) = Cardinality({ i \in DOMAIN disposition :
                                           disposition[i] = "kept" })
    /\ \A i \in DOMAIN mailbox :
          ( /\ mailbox[i].from_type = "str"
            /\ AddressMatch(strip(mailbox[i].from)).match
            /\ AddressMatch(strip(mailbox[i].from)).phone_number
                 # TARGET_PHONE_NUMBER )
          => disposition[i] # "kept"

C3_Witness ==
    /\ pc = "done"
    /\ Len(outbox) >= 1
    /\ \E i \in DOMAIN mailbox :
          /\ disposition[i] = "unrelated_phone"
          /\ AddressMatch(mailbox[i].from).domain \in GatewayDomains
          /\ mailbox[i].parts[1].text # <<>>

\* C4: the fetch never hands back an empty list: with no unread mail, or with
\* every unread mail filtered out, it raises, and the run ends with no
\* classification, no row and no reply.
C4_NeverEmptyBatch ==
    events # <<>>
    => /\ events[1].result = "returned" => messages # <<>>
       /\ (\A i \in DOMAIN disposition : disposition[i] # "kept")
          => events[1].result # "returned"
       /\ events[1].result # "returned"
          => /\ messages = <<>>
             /\ pc = "aborted"
             /\ Len(events) = 1
             /\ db = <<>>
             /\ outbox = <<>>

C4_Witness ==
    /\ pc = "aborted"
    /\ events[1].result = "no_valid"
    /\ \E i \in DOMAIN disposition : disposition[i] = "empty_body"
    /\ \E i \in DOMAIN disposition : disposition[i] # "empty_body"

\* C5: an unread mail skipped because its sender is another number is still
\* unread after the fetch.
C5_SkippedLeftUnread ==
    \A i \in DOMAIN mailbox :
        disposition[i] = "unrelated_phone" => ~mailbox[i].seen

\* C6: every tuple returned by the fetch has a non-empty body, so no empty
\* body is classified or stored as raw_message.
C6_NoEmptyBody ==
    /\ \A i \in DOMAIN messages : messages[i].body # <<>>
    /\ \A i \in DOMAIN db : db[i].raw_message # <<>>

\* C7: for every carrier of CARRIER_MAP and every phone number of digits,
\* parsing the address composed by send_sms gives back the phone number and
\* the carrier.
C7_CodecRoundTrip ==
    codec_pc = "done"
    => /\ codec_out.ok
       /\ codec_out.phone_number = codec_in.phone_number
       /\ codec_out.carrier = codec_in.carrier

C7_Witness ==
    /\ codec_pc = "done"
    /\ codec_in.carrier = "at&t"
    /\ Len(codec_in.phone_number) = 2
    /\ codec_out.carrier = "at&t"

\* The unread mail examined after mail i, or 0.
NextUnread(i) ==
    LET later == { j \in DOMAIN mailbox :
                      j > i /\ disposition[j] # "not_selected" }
    IN  IF later = {} THEN 0
        ELSE CHOOSE j \in later : \A k \in later : j <= k

\* C8: every tuple and every row has a carrier that is a key of CARRIER_MAP;
\* an unread mail whose From domain is not one of the gateway domains is
\* dropped as an invalid address when the loop reaches it, and the loop goes
\* on to the unread mail after it.
C8_CarrierInDirectory ==
    /\ \A i \in DOMAIN messages : messages[i].carrier \in CarrierKeys
    /\ \A i \in DOMAIN db : db[i].carrier \in CarrierKeys
    /\ \A i \in DOMAIN outbox : AfterAt(outbox[i].to) \in GatewayDomains
    /\ \A i \in DOMAIN mailbox :
          ( /\ mailbox[i].from_type # "none"
            /\ AfterAt(strip(mailbox[i].from)) \notin GatewayDomains
            /\ disposition[i] \notin {"pending", "not_selected",
                                      "not_fetched", "fetch_failed"} )
          => /\ disposition[i] = "invalid_format"
             /\ NextUnread(i) # 0 => disposition[NextUnread(i)] # "not_fetched"

\* C9: a failed transmission is attempted once and does not end the loop:
\* the next step of the run is the classification of the next message, or
\* the normal end of the run after the last one.
C9_SendFailureContained ==
    /\ \A n \in DOMAIN messages :
          /\ Cardinality({ i \in DOMAIN outbox : outbox[i].msg = n }) <= 1
          /\ Cardinality(EventsOf("send", n)) <= 1
    /\ \A k \in DOMAIN events :
          (events[k].kind = "send" /\ events[k].result = "error")
          => LET n == events[k].msg
             IN  IF n < Len(messages)
                 THEN /\ k = Len(events) => pc = "classifying" /\ idx = n + 1
                      /\ k < Len(events)
                         => events[k + 1].kind = "classify"
                            /\ events[k + 1].msg = n + 1
                 ELSE k = Len(events) /\ pc = "done"

C9_Witness ==
    /\ pc = "done"
    /\ \E k \in DOMAIN events :
          /\ events[k] = Event("send", 1, "error")
          /\ Event("log", 2, "ok") \in { events[j] : j \in DOMAIN events }
          /\ Event("send", 2, "ok") \in { events[j] : j \in DOMAIN events }

StepKind == <<"classify", "log", "send">>

\* C10: the fetch comes first and alone; then, message by message in the
\* order of the fetched list, classification, insert, reply; a reply follows
\* the successful insert of its own message and carries the fixed
\* confirmation string.
C10_StepOrder ==
    /\ \A k \in DOMAIN events :
          /\ (k = 1) <=> (events[k].kind = "fetch")
          /\ k > 1
             => /\ events[1].result = "returned"
                /\ events[k].msg = ((k - 2) \div 3) + 1
                /\ events[k].msg <= Len(messages)
                /\ events[k].kind = StepKind[((k - 2) % 3) + 1]
          /\ events[k].kind = "log"
             => events[k - 1].kind = "classify" /\ events[k - 1].msg = events[k].msg
          /\ events[k].kind = "send"
             => events[k - 1] = Event("log", events[k].msg, "ok")
    /\ \A i \in DOMAIN db :
          /\ db[i].id = i
          /\ db[i].raw_message = messages[i].body
    /\ \A i \in DOMAIN outbox :
          /\ outbox[i].body = confirmation
          /\ outbox[i].msg = i
          /\ Len(db) >= i
          /\ outbox[i].to = to_email(messages[i].phone_number, messages[i].carrier)

C10_Witness ==
    /\ pc = "done"
    /\ Len(messages) = 2
    /\ Len(db) = 2
    /\ Len(outbox) = 2
    /\ db[1].parsed_intent # confirmation

====
